---- MODULE Spec2Model ----
(***************************************************************************)
(* A model of app.py (ETH EHR999): the kline acquisition loop              *)
(* (fetch_eth_klines), the indicator engine (calculate_ehr999), the band   *)
(* classification and report emission (generate_html_chart) and the main   *)
(* run (__main__).                                                         *)
(*                                                                         *)
(* Conventions.                                                            *)
(*  - A kline is [open_time, close]; the other ten fields of a record are  *)
(*    never read by the code this module models.  open_time is epoch       *)
(*    milliseconds on the wire and nanoseconds once pd.to_datetime has run.*)
(*  - Prices are naturals (a fixed-point scale of the decimal text the API *)
(*    sends); an oscillator value is the exact rational <<num, den>>, and  *)
(*    NaN is <<0, 0>>.                                                     *)
(*  - A DataFrame is [none, rows]: none = TRUE is Python's None, rows are  *)
(*    the frame's rows, each carrying its index label.                     *)
(*  - Sequences are 1-based: the code's positional index i is i + 1 here.  *)
(***************************************************************************)
EXTENDS Integers, Sequences, FiniteSets

VARIABLES
    pc,          \* position of the run
    mode,        \* how the upstream source answers: "honest" or "replay"
    source,      \* the upstream's bars: its history (honest) or its feed (replay)
    pos,         \* replay: how many bars of the feed were served
    start_time,  \* fetch_eth_klines: the cursor
    all_data,    \* fetch_eth_klines: the accumulator
    requests,    \* number of page requests sent
    ended,       \* a page that is empty or shorter than the limit was received
    failed,      \* a page request raised
    df,          \* the value fetch_eth_klines returned
    result,      \* the value calculate_ehr999 returned
    exc,         \* the exception that ended the run, "none" if none
    windows,     \* calculate_ehr999: <<ma_window, long_window>>
    report,      \* index.html
    calls        \* the functions __main__ called after the fetch

vars == <<pc, mode, source, pos, start_time, all_data, requests, ended, failed,
          df, result, windows, exc, report, calls>>

----------------------------------------------------------------------------
(* Bounds of the model *)

\* largest open_time (scaled epoch milliseconds) in an honest source's history
MaxTime == 11
\* fetch_eth_klines' inception instant, on the model's scaled time axis
Inception == 1
\* the page size (the code's 1000), scaled
PageLimit == 2
\* longest replay feed
FeedLen == 4
\* a replay feed's open_times are Inception .. Inception + FeedTimes
FeedTimes == 2
\* largest open_time in a history given to fetch_eth_klines on its own
FetchMaxTime == 7
\* longest series given to calculate_ehr999 on its own
MaxN == 2400
\* largest latest oscillator value given to generate_html_chart on its own, in 1/100
MaxV == 700

\* nanoseconds per millisecond: pd.to_datetime(unit='ms')
NsPerMs == 1000000

----------------------------------------------------------------------------
(* Values *)

Min(a, b) == IF a < b THEN a ELSE b

Max(a, b) == IF a > b THEN a ELSE b

Bar(t, c) == [open_time |-> t, close |-> c]

NaN == <<0, 0>>

NoData == [none |-> TRUE, rows |-> <<>>]

DataFrame(rows) == [none |-> FALSE, rows |-> rows]

NoReport == [written |-> FALSE, band |-> 0, current |-> {}, points |-> 0]

NoResult == [rows |-> <<>>, latest |-> NaN]

----------------------------------------------------------------------------
(* The upstream source *)

\* the closes an honest history carries: flat, all zero, or mixed
ClosePatterns == {"flat", "zero", "mixed"}

CloseOf(p, t) == IF p = "flat" THEN 1 ELSE IF p = "zero" THEN 0 ELSE t % 3

\* the bars of `times`, ascending in open_time
RECURSIVE HistoryOf(_, _)
HistoryOf(times, p) ==
    IF times = {} THEN <<>>
    ELSE LET t == CHOOSE x \in times : \A y \in times : y <= x
         IN Append(HistoryOf(times \ {t}, p), Bar(t, CloseOf(p, t)))

Histories == { HistoryOf(ts, p) : ts \in SUBSET (0..MaxTime), p \in ClosePatterns }

FeedBars == { Bar(t, c) : t \in Inception..(Inception + FeedTimes), c \in {1, 2} }

Feeds == UNION { [1..n -> FeedBars] : n \in 0..FeedLen }

Take(s, n) == SubSeq(s, 1, Min(n, Len(s)))

AtOrAfter(s, t) ==
    LET Test(b) == b.open_time >= t IN SelectSeq(s, Test)

\* the page the source answers a request for startTime = t with
Page(t) ==
    IF mode = "honest"
    THEN Take(AtOrAfter(source, t), PageLimit)
    ELSE Take(SubSeq(source, pos + 1, Len(source)), PageLimit)

----------------------------------------------------------------------------
(* fetch_eth_klines *)

NextCursorSkip(data) == data[Len(data)].open_time + 2

NextCursor(data) == data[Len(data)].open_time + 1

LastPageOff(data) == Len(data) < PageLimit - 1

LastPage(data) == Len(data) < PageLimit

ToDatetime(ms) == ms * NsPerMs

\* pd.DataFrame(all_data, columns=...) with lines 74-79: a RangeIndex, and
\* open_time converted
NewFrame(data) ==
    [i \in 1..Len(data) |-> [index |-> i - 1,
                             open_time |-> ToDatetime(data[i].open_time),
                             close |-> data[i].close]]

DropDuplicatesKeepLast(rows) ==
    LET Last(r) == \A j \in (r.index + 2)..Len(rows) :
                       rows[j].open_time # r.open_time
    IN SelectSeq(rows, Last)

\* drop_duplicates(subset=['open_time']), keep='first': a row stays when no
\* earlier row has its open_time
DropDuplicates(rows) ==
    LET First(r) == \A j \in 1..r.index : rows[j].open_time # r.open_time
    IN SelectSeq(rows, First)

\* reset_index(drop=True)
ResetIndex(rows) ==
    [i \in 1..Len(rows) |-> [index |-> i - 1, open_time |-> rows[i].open_time,
                             close |-> rows[i].close]]

\* lines 68-87: the frame built from the accumulator
BuildFrame(data) == DataFrame(ResetIndex(DropDuplicates(NewFrame(data))))

ExceptResultPartial(data) == IF data = <<>> THEN NoData ELSE BuildFrame(data)

\* lines 89-91: what the except clause returns
ExceptResult(data) == NoData

\* lines 40-62: one iteration of the loop, the request answered
FetchPage ==
    /\ pc = "request"
    /\ LET data == Page(start_time)
           stop == data = <<>> \/ LastPage(data)
       IN /\ requests' = requests + 1
          /\ all_data' = IF data = <<>> THEN all_data ELSE all_data \o data
          /\ start_time' = IF data = <<>> THEN start_time ELSE NextCursor(data)
          /\ pos' = IF mode = "replay" THEN pos + Len(data) ELSE pos
          /\ ended' = (Len(data) < PageLimit)
          /\ pc' = IF stop THEN "frame" ELSE "request"
    /\ UNCHANGED <<mode, source, failed, df, result, windows, exc, report, calls>>

\* lines 47-49, 89-91: the request raises (transport, status, timeout, decode)
FetchError ==
    /\ pc = "request"
    /\ requests' = requests + 1
    /\ failed' = TRUE
    /\ df' = ExceptResult(all_data)
    /\ pc' = "main"
    /\ UNCHANGED <<mode, source, pos, start_time, all_data, ended, result,
                   windows, exc, report, calls>>

\* lines 64-87: after the loop
FetchReturn ==
    /\ pc = "frame"
    /\ df' = IF all_data = <<>> THEN NoData ELSE BuildFrame(all_data)
    /\ pc' = "main"
    /\ UNCHANGED <<mode, source, pos, start_time, all_data, requests, ended,
                   failed, result, windows, exc, report, calls>>

----------------------------------------------------------------------------
(* calculate_ehr999 *)

ShortWindow(n) == IF n < 200 THEN Min(50, n \div 4) ELSE 200

\* int(len(df) * 0.6)
MaxLongWindow(n) == (n * 6) \div 10

LongWindowUnadjusted(n) == Min(ShortWindow(n) * 7, MaxLongWindow(n))

LongWindow(n) ==
    LET ma_window == ShortWindow(n)
        long_window == Min(ma_window * 7, MaxLongWindow(n))
    IN IF long_window < ma_window + 50
       THEN Min(ma_window + 50, n - 10)
       ELSE long_window

\* Series.rolling(window=w) raises ValueError for a negative window
RollingRaises(w) == w < 0

RollingDefinedAny(w, i) == i >= 1

\* rolling(w).mean() at position i (1-based) is not NaN: min_periods = w,
\* and a window of 0 holds no observation
RollingDefined(w, i) == w > 0 /\ i >= w

\* the sum of closes over rows lo..hi
RECURSIVE SumClose(_, _, _)
SumClose(rows, lo, hi) ==
    IF lo > hi THEN 0
    ELSE IF lo = hi THEN rows[lo].close
    ELSE LET mid == (lo + hi) \div 2
         IN SumClose(rows, lo, mid) + SumClose(rows, mid + 1, hi)

WindowSum(rows, w, i) == SumClose(rows, i - w + 1, i)

\* line 127 at row i is NaN: an average is NaN, or close / average is 0 / 0
IsNaN(rows, sw, lw, i) ==
    \/ ~RollingDefined(sw, i)
    \/ ~RollingDefined(lw, i)
    \/ /\ rows[i].close = 0
       /\ (WindowSum(rows, sw, i) = 0 \/ WindowSum(rows, lw, i) = 0)

\* line 127 at row i, not NaN: (close / (s1/sw)) * (close / (s2/lw))
EHR999(rows, sw, lw, i) ==
    <<rows[i].close * rows[i].close * sw * lw,
      WindowSum(rows, sw, i) * WindowSum(rows, lw, i)>>

\* lines 115-130: the rows dropna keeps, and the last one's EHR999
Indicator(rows) ==
    LET sw == ShortWindow(Len(rows))
        lw == LongWindow(Len(rows))
        Keep(r) == ~IsNaN(rows, sw, lw, r.index + 1)
        kept == SelectSeq(rows, Keep)
    IN [rows |-> kept,
        latest |-> IF kept = <<>> THEN NaN
                   ELSE EHR999(rows, sw, lw, kept[Len(kept)].index + 1)]

CalculateEhr999 ==
    /\ pc = "calc"
    /\ LET n == Len(df.rows)
       IN /\ windows' = <<ShortWindow(n), LongWindow(n)>>
          /\ IF RollingRaises(ShortWindow(n)) \/ RollingRaises(LongWindow(n))
             THEN /\ exc' = "ValueError"
                  /\ pc' = "crashed"
                  /\ UNCHANGED result
             ELSE /\ result' = Indicator(df.rows)
                  /\ pc' = "latest"
                  /\ UNCHANGED exc
    /\ UNCHANGED <<mode, source, pos, start_time, all_data, requests, ended,
                   failed, df, report, calls>>

----------------------------------------------------------------------------
(* generate_html_chart *)

\* 0.73, 1.20, 1.50, 3.0, 4.5, 6.5 in 1/100
Thresholds == <<73, 120, 150, 300, 450, 650>>

\* v < Thresholds[k]
Below(v, k) == v[1] * 100 < Thresholds[k] * v[2]

\* lines 168-195: the if / elif chain
Classify(v) ==
    IF Below(v, 1) THEN 1
    ELSE IF Below(v, 2) THEN 2
    ELSE IF Below(v, 3) THEN 3
    ELSE IF Below(v, 4) THEN 4
    ELSE IF Below(v, 5) THEN 5
    ELSE IF Below(v, 6) THEN 6
    ELSE 7

RowIsCurrentStrict(k, v) ==
    IF k = 1 THEN Below(v, 1)
    ELSE IF k = 7 THEN ~Below(v, 6)
    ELSE (Thresholds[k - 1] * v[2] < v[1] * 100) /\ Below(v, k)

\* lines 384-426: the test that gives table row k the class current-row
RowIsCurrent(k, v) ==
    IF k = 1 THEN Below(v, 1)
    ELSE IF k = 7 THEN ~Below(v, 6)
    ELSE ~Below(v, k - 1) /\ Below(v, k)

GenerateHtmlChart ==
    /\ pc = "generate"
    /\ report' = IF result.rows = <<>>
                 THEN report
                 ELSE [written |-> TRUE,
                       band |-> Classify(result.latest),
                       current |-> {k \in 1..7 : RowIsCurrent(k, result.latest)},
                       points |-> Len(result.rows)]
    /\ pc' = "done"
    /\ UNCHANGED <<mode, source, pos, start_time, all_data, requests, ended,
                   failed, df, result, windows, exc, calls>>

----------------------------------------------------------------------------
(* __main__ *)

\* lines 504-506, 519-520
MainCheck ==
    /\ pc = "main"
    /\ IF df.none
       THEN pc' = "done" /\ UNCHANGED calls
       ELSE pc' = "calc" /\ calls' = calls \cup {"calculate_ehr999"}
    /\ UNCHANGED <<mode, source, pos, start_time, all_data, requests, ended,
                   failed, df, result, windows, exc, report>>

\* lines 511-517: iloc[-1] of an empty frame raises IndexError
PrintLatest ==
    /\ pc = "latest"
    /\ IF result.rows = <<>>
       THEN exc' = "IndexError" /\ pc' = "crashed" /\ UNCHANGED calls
       ELSE /\ pc' = "generate"
            /\ calls' = calls \cup {"generate_html_chart"}
            /\ UNCHANGED exc
    /\ UNCHANGED <<mode, source, pos, start_time, all_data, requests, ended,
                   failed, df, result, windows, report>>

----------------------------------------------------------------------------
(* The run *)

\* the state a run of `at` starts in, the source and the values handed to it given
Start(at, m, s, frame, res) ==
    /\ pc = at
    /\ mode = m
    /\ source = s
    /\ pos = 0
    /\ start_time = Inception
    /\ all_data = <<>>
    /\ requests = 0
    /\ ended = FALSE
    /\ failed = FALSE
    /\ df = frame
    /\ result = res
    /\ windows = <<0, 0>>
    /\ exc = "none"
    /\ report = NoReport
    /\ calls = {}

Init ==
    \/ \E h \in Histories : Start("request", "honest", h, NoData, NoResult)
    \/ \E f \in Feeds : Start("request", "replay", f, NoData, NoResult)

Next ==
    \/ FetchPage
    \/ FetchError
    \/ FetchReturn
    \/ MainCheck
    \/ CalculateEhr999
    \/ PrintLatest
    \/ GenerateHtmlChart

Spec == Init /\ [][Next]_vars

----------------------------------------------------------------------------
(* fetch_eth_klines on its own, against an honest source.  The function is *)
(* one thread that never waits (a request either answers or times out), so *)
(* its next step is always taken.                                          *)

FetchHistories == { HistoryOf(ts, "flat") : ts \in SUBSET (0..FetchMaxTime) }

FetchInit ==
    \E h \in FetchHistories : Start("request", "honest", h, NoData, NoResult)

FetchNext ==
    \/ FetchPage
    \/ FetchError
    \/ FetchReturn

FetchSpec == FetchInit /\ [][FetchNext]_vars /\ WF_vars(FetchNext)

----------------------------------------------------------------------------
(* calculate_ehr999 on its own: a series of n bars, open_time rising, closes 1 or 2 *)

SeriesOf(n) ==
    [i \in 1..n |-> [index |-> i - 1,
                     open_time |-> ToDatetime(Inception) + i - 1,
                     close |-> 1 + (i % 2)]]

EngineInit ==
    \E n \in 0..MaxN : Start("calc", "honest", <<>>, DataFrame(SeriesOf(n)), NoResult)

EngineNext == CalculateEhr999

EngineSpec == EngineInit /\ [][EngineNext]_vars

----------------------------------------------------------------------------
(* generate_html_chart on its own: a frame whose last EHR999 is v / 100, or *)
(* an empty frame                                                          *)

FrameOf(v) == [rows |-> SeriesOf(1), latest |-> <<v, 100>>]

BandInit ==
    \/ \E v \in 0..MaxV : Start("generate", "honest", <<>>, NoData, FrameOf(v))
    \/ Start("generate", "honest", <<>>, NoData, NoResult)

BandNext == GenerateHtmlChart

BandSpec == BandInit /\ [][BandNext]_vars

----------------------------------------------------------------------------
(* Properties *)

\* fetch_eth_klines has returned
Returned == pc \notin {"request", "frame"}

\* calculate_ehr999 has returned a frame
Calculated == pc \in {"latest", "generate", "done", "crashed"} /\ exc # "ValueError"

\* the source's bars from the inception instant on
Wanted == AtOrAfter(source, Inception)

IsRowOf(r, b) == r.open_time = ToDatetime(b.open_time) /\ r.close = b.close

StrictlyIncreasing(rows) ==
    \A i, j \in 1..Len(rows) : i < j => rows[i].open_time < rows[j].open_time

\* C1: against a source that answers each request with the earliest (at most
\* PageLimit) bars at or after startTime, a fetch in which no request failed
\* returns every source bar at or after the inception instant exactly once,
\* and nothing else.
C1_Complete ==
    (mode = "honest" /\ Returned /\ ~failed) =>
        /\ \A k \in 1..Len(Wanted) :
               Cardinality({i \in 1..Len(df.rows) : IsRowOf(df.rows[i], Wanted[k])}) = 1
        /\ \A i \in 1..Len(df.rows) :
               \E k \in 1..Len(Wanted) : IsRowOf(df.rows[i], Wanted[k])
        /\ Len(df.rows) = Len(Wanted)

\* C1's case: a history whose length is an exact multiple of the page size,
\* fetched over several pages.
C1_Witness ==
    /\ mode = "honest" /\ Returned /\ ~failed
    /\ Len(Wanted) = 3 * PageLimit
    /\ Len(df.rows) = 3 * PageLimit
    /\ Len(source) > Len(Wanted)
    /\ requests = 4

\* C2: the series fetch_eth_klines returns is strictly increasing in
\* open_time, whatever pages the source returned.
C2_Sorted == (Returned /\ ~df.none) => StrictlyIncreasing(df.rows)

\* the first accumulated bar with the open_time of row r
FirstAccumulated(r) ==
    all_data[CHOOSE k \in 1..Len(all_data) :
                 /\ ToDatetime(all_data[k].open_time) = r.open_time
                 /\ \A j \in 1..(k - 1) :
                        ToDatetime(all_data[j].open_time) # r.open_time]

\* C3: in the series fetch_eth_klines returns every accumulated open_time
\* appears exactly once, and its row is the first bar accumulated with it.
C3_FirstKept ==
    (Returned /\ ~df.none) =>
        /\ \A i, j \in 1..Len(df.rows) :
               i # j => df.rows[i].open_time # df.rows[j].open_time
        /\ \A k \in 1..Len(all_data) :
               \E i \in 1..Len(df.rows) :
                   df.rows[i].open_time = ToDatetime(all_data[k].open_time)
        /\ \A i \in 1..Len(df.rows) :
               /\ \E k \in 1..Len(all_data) :
                      ToDatetime(all_data[k].open_time) = df.rows[i].open_time
               /\ df.rows[i].close = FirstAccumulated(df.rows[i]).close

\* C3's case: two pages share an open_time and disagree on its close.
C3_Witness ==
    /\ Returned /\ ~df.none
    /\ requests >= 2
    /\ \E j, k \in 1..Len(all_data) :
           /\ j <= PageLimit /\ k > PageLimit
           /\ all_data[j].open_time = all_data[k].open_time
           /\ all_data[j].close # all_data[k].close

\* C4: a failed page request, or an empty accumulator, makes
\* fetch_eth_klines return None with no bar in it; and after None the main
\* run calls neither calculate_ehr999 nor generate_html_chart and writes no
\* report.
C4_Sentinel ==
    /\ failed => df = NoData
    /\ (Returned /\ all_data = <<>>) => df = NoData
    /\ (Returned /\ df.none) =>
           /\ pc \in {"main", "done"}
           /\ calls = {}
           /\ ~report.written
           /\ exc = "none"

\* C4's case: a later page request fails after bars were accumulated, and the
\* run has ended.
C4_Witness ==
    /\ failed /\ all_data # <<>> /\ requests >= 2
    /\ pc = "done"

Computed == pc # "calc"

\* C5, as stated: for every series length N >= 60 the long window is at
\* least the short window.
C5_LongAtLeastShort ==
    (Computed /\ Len(df.rows) >= 60) => windows[2] >= windows[1]

\* C5, amended: for every series length N >= 60 other than 200..209 the long
\* window is at least the short window.
C5_LongAtLeastShortExcept ==
    (Computed /\ Len(df.rows) >= 60 /\ Len(df.rows) \notin 200..209) =>
        windows[2] >= windows[1]

\* C5's case: the adjusted long window of a series just past the excluded
\* lengths.
C5_Witness ==
    /\ Computed /\ Len(df.rows) = 210
    /\ windows = <<200, 200>>

\* C6: a series whose window sizing yields a zero or negative window makes
\* calculate_ehr999 return an empty frame without raising.
C6_EmptyNotRaise ==
    (Computed /\ (windows[1] <= 0 \/ windows[2] <= 0)) =>
        (exc = "none" /\ pc = "latest" /\ result.rows = <<>>)

\* C7: with positive closes and positive windows calculate_ehr999 returns
\* exactly the rows at positions max(short_window, long_window) - 1 and
\* later, in input order and unchanged in open_time; for N = 1000 the windows
\* are 200 and 600, the first row is index 599 and there are 401 rows.
C7_DefinedRows ==
    (pc = "latest" /\ windows[1] > 0 /\ windows[2] > 0) =>
        LET n == Len(df.rows)
            first == Max(windows[1], windows[2])
        IN /\ Len(result.rows) = Max(0, n - first + 1)
           /\ \A k \in 1..Len(result.rows) :
                  /\ result.rows[k].index = first - 1 + k - 1
                  /\ result.rows[k] = df.rows[first + k - 1]
           /\ n = 1000 =>
                  /\ windows = <<200, 600>>
                  /\ Len(result.rows) = 401
                  /\ result.rows[1].index = 599

\* C7's case: the 1000-bar series.
C7_Witness ==
    /\ pc = "latest"
    /\ Len(df.rows) = 1000
    /\ Len(result.rows) = 401
    /\ result.rows[1].index = 599

\* C8: for a latest value v >= 0 the band chosen is the first threshold test
\* that succeeds (the top band if none does), a boundary value belongs to the
\* upper band, and the strategy table marks the row of that band and no other.
C8_OneBand ==
    (pc = "done" /\ report.written) =>
        LET v == result.latest
            k == report.band
        IN /\ k \in 1..7
           /\ \A j \in 1..6 : j < k => ~Below(v, j)
           /\ k < 7 => Below(v, k)
           /\ k = 1 + Cardinality({j \in 1..6 : v[1] * 100 >= Thresholds[j] * v[2]})
           /\ report.current = {k}
           /\ v = <<73, 100>> => k = 2
           /\ v = <<650, 100>> => k = 7

\* C8's case: the value on the first boundary.
C8_Witness ==
    /\ pc = "done" /\ report.written
    /\ result.latest = <<73, 100>>
    /\ report.band = 2
    /\ report.current = {2}

\* C9: when the fetch succeeded and calculate_ehr999 returned an empty
\* frame, the run ends without an unhandled exception and without a report.
C9_Graceful ==
    (~df.none /\ Calculated /\ result.rows = <<>> /\ pc # "latest") =>
        (exc = "none" /\ pc = "done" /\ ~report.written)

\* C10: against a source whose pages hold only bars at or after startTime in
\* ascending order, the cursor strictly increases with every non-empty page,
\* the loop stops at the first page that is empty or shorter than the limit
\* and not before, no request follows that page, and the loop terminates,
\* having sent at most one request more than the history holds full pages.
C10_Terminates ==
    /\ [][(mode = "honest" /\ all_data' # all_data) => start_time' > start_time]_vars
    /\ [][(mode = "honest" /\ ended) => requests' = requests]_vars
    /\ [](mode = "honest" => (ended => pc # "request"))
    /\ [](mode = "honest" => ((pc # "request" /\ ~failed) => ended))
    /\ [](mode = "honest" => requests <= (Len(Wanted) \div PageLimit) + 1)
    /\ (mode = "honest" => <>(pc # "request"))

\* C10's case: a fetch of several full pages ended by a short page.
C10_Witness ==
    /\ mode = "honest" /\ ended /\ ~failed
    /\ requests = 3
    /\ Len(all_data) = 2 * PageLimit + 1
    /\ Returned

====
